---- MODULE Spec2Model ----
(***************************************************************************)
(* cec_linux: the CEC message codec (CecMsg), the status predicate and the *)
(* transmit / request / receive operations of CecDevice, over a transport  *)
(* (the CEC ioctls) whose answers are nondeterministic.                    *)
(*                                                                         *)
(* A Rust array index i is the TLA+ sequence index i + 1.                  *)
(***************************************************************************)
EXTENDS Integers, Sequences, FiniteSets, TLC

(* ------------------------------ bounds --------------------------------- *)

\* longest parameter slice a caller hands to transmit_data / request_data
MaxDataLen == 16

(* -------------------------- program constants -------------------------- *)

CEC_MAX_MSG_SIZE == 16

\* bitflags TxStatus
TxStatus_OK == 1
TxStatus_ARB_LOST == 2
TxStatus_NACK == 4
TxStatus_LOW_DRIVE == 8
TxStatus_ERROR == 16
TxStatus_MAX_RETRIES == 32
TxStatus_all ==
    TxStatus_OK + TxStatus_ARB_LOST + TxStatus_NACK + TxStatus_LOW_DRIVE
    + TxStatus_ERROR + TxStatus_MAX_RETRIES

\* bitflags RxStatus
RxStatus_OK == 1
RxStatus_TIMEOUT == 2
RxStatus_FEATURE_ABORT == 4
RxStatus_all == RxStatus_OK + RxStatus_TIMEOUT + RxStatus_FEATURE_ABORT

\* enum CecOpcode, the discriminants the operations below name
FeatureAbort == 0
ImageViewOn == 4
Standby == 54
UserControlPressed == 68
UserControlReleased == 69
GiveAudioStatus == 113
ReportAudioStatus == 122
VendorCommand == 137

\* enum CecLogicalAddress
Tv == 0
Audiosystem == 5
Playback2 == 8
UnregisteredBroadcast == 15

\* every discriminant of enum CecOpcode
CecOpcode ==
    { 0, 4, 5, 6, 7, 8, 9, 10, 11, 13, 15, 26, 27, 50, 51, 52, 53, 54, 65,
      66, 67, 68, 69, 70, 71, 100, 103, 112, 113, 114, 122, 125, 126, 128,
      129, 130, 131, 132, 133, 134, 135, 137, 138, 139, 140, 141, 142, 143,
      144, 145, 146, 147, 151, 153, 154, 157, 158, 159, 160, 161, 162, 163,
      164, 165, 166, 167, 168, 192, 193, 194, 195, 196, 197, 248, 255 }

\* every discriminant of enum CecLogicalAddress
CecLogicalAddress == 0..15

Byte == 0..255

(* ---------------------------- u8 arithmetic ---------------------------- *)

RECURSIVE BitAnd(_, _)
\* a & b
BitAnd(a, b) ==
    IF a = 0 \/ b = 0 THEN 0
    ELSE (a % 2) * (b % 2) + 2 * BitAnd(a \div 2, b \div 2)

RECURSIVE BitOr(_, _)
\* a | b
BitOr(a, b) ==
    IF a = 0 THEN b
    ELSE IF b = 0 THEN a
    ELSE (IF a % 2 = 1 \/ b % 2 = 1 THEN 1 ELSE 0)
         + 2 * BitOr(a \div 2, b \div 2)

\* (a << n) on a u8, for the one shift the code uses (n = 4)
Shl4(a) == (a * 16) % 256

\* (a >> 4) on a u8
Shr4(a) == a \div 16

\* bitflags: flags.contains(bit)
contains(flags, bit) == BitAnd(flags, bit) = bit

\* bitflags: flags.is_empty()
is_empty(flags) == flags = 0

(* ------------------------------ slices --------------------------------- *)

\* arr[lo..hi] is in range (Rust panics otherwise)
RangeOk(arr, lo, hi) == lo <= hi /\ hi <= Len(arr)

\* arr[lo..hi], for a range that is in range
Slice(arr, lo, hi) == [i \in 1..(hi - lo) |-> arr[lo + i]]

\* arr with arr[lo..hi] overwritten by src (copy_from_slice)
CopyInto(arr, lo, hi, src) ==
    [i \in 1..Len(arr) |-> IF i > lo /\ i <= hi THEN src[i - lo] ELSE arr[i]]

(* ------------------------------- CecMsg -------------------------------- *)

\* CecMsg::init that packs the two nibbles the other way round
CecMsg_init_swapped(from, to) ==
    [ len       |-> 1,
      timeout   |-> 0,
      sequence  |-> 0,
      msg       |-> [i \in 1..CEC_MAX_MSG_SIZE |->
                        IF i = 1 THEN BitOr(Shl4(to), from) ELSE 0],
      reply     |-> 0,
      rx_status |-> 0,
      tx_status |-> 0 ]

\* CecMsg::init(from, to)
CecMsg_init(from, to) ==
    [ len       |-> 1,
      timeout   |-> 0,
      sequence  |-> 0,
      msg       |-> [i \in 1..CEC_MAX_MSG_SIZE |->
                        IF i = 1 THEN BitOr(Shl4(from), to) ELSE 0],
      reply     |-> 0,
      rx_status |-> 0,
      tx_status |-> 0 ]

\* u8 -> CecLogicalAddress (try_into().unwrap()): -1 stands for the panic
AddrTryInto(n) == IF n \in CecLogicalAddress THEN n ELSE -1

\* CecMsg::initiator
initiator(m) == AddrTryInto(Shr4(m.msg[1]))

\* CecMsg::destination
destination(m) == AddrTryInto(BitAnd(m.msg[1], 15))

\* u8 -> Result<CecOpcode, TryFromPrimitiveError<CecOpcode>>
OpcodeTryInto(b) ==
    IF b \in CecOpcode THEN [tag |-> "Ok", number |-> b]
    ELSE [tag |-> "Err", number |-> b]

\* opcode() that takes a two-byte message for a poll
opcode_len2(m) ==
    IF m.len > 2 THEN OpcodeTryInto(m.msg[2])
    ELSE [tag |-> "None", number |-> 0]

\* CecMsg::opcode
opcode(m) ==
    IF m.len > 1 THEN OpcodeTryInto(m.msg[2])
    ELSE [tag |-> "None", number |-> 0]

\* parameters() that starts its slice at the opcode byte
parameters_fromOpcode(m) ==
    IF m.len > 2
    THEN IF RangeOk(m.msg, 1, m.len)
         THEN [panicked |-> FALSE, bytes |-> Slice(m.msg, 1, m.len)]
         ELSE [panicked |-> TRUE, bytes |-> <<>>]
    ELSE [panicked |-> FALSE, bytes |-> <<>>]

\* CecMsg::parameters: panicked is TRUE where the slice is out of range
parameters(m) ==
    IF m.len > 2
    THEN IF RangeOk(m.msg, 2, m.len)
         THEN [panicked |-> FALSE, bytes |-> Slice(m.msg, 2, m.len)]
         ELSE [panicked |-> TRUE, bytes |-> <<>>]
    ELSE [panicked |-> FALSE, bytes |-> <<>>]

\* is_broadcast() that looks at the initiator nibble
is_broadcast_initiator(m) == Shr4(m.msg[1]) = 15

\* CecMsg::is_broadcast
is_broadcast(m) == BitAnd(m.msg[1], 15) = 15

\* is_ok() without its last rule
is_ok_noAbortRule(m) ==
    IF ~is_empty(m.tx_status) /\ ~contains(m.tx_status, TxStatus_OK)
    THEN FALSE
    ELSE IF ~is_empty(m.rx_status) /\ ~contains(m.rx_status, RxStatus_OK)
    THEN FALSE
    ELSE IF is_empty(m.rx_status) /\ is_empty(m.tx_status)
    THEN FALSE
    ELSE TRUE

\* CecMsg::is_ok
is_ok(m) ==
    IF ~is_empty(m.tx_status) /\ ~contains(m.tx_status, TxStatus_OK)
    THEN FALSE
    ELSE IF ~is_empty(m.rx_status) /\ ~contains(m.rx_status, RxStatus_OK)
    THEN FALSE
    ELSE IF is_empty(m.rx_status) /\ is_empty(m.tx_status)
    THEN FALSE
    ELSE ~contains(m.rx_status, RxStatus_FEATURE_ABORT)

(* --------------------- the inputs the model draws ---------------------- *)

\* how far one call's inputs may leave their usual values: every input that
\* is one of its sample values costs 1, any other value costs 2
InputBudget == 2

\* the values an input may take when b of the budget is left
Dom(Default, Sample, Wide, b) ==
    IF b >= 2 THEN Wide ELSE IF b = 1 THEN {Default} \cup Sample ELSE {Default}

\* what the value x of an input costs
Cost(x, Default, Sample) ==
    IF x = Default THEN 0 ELSE IF x \in Sample THEN 1 ELSE 2

\* n bytes, all different, that start from seed
DataOf(n, seed) == [i \in 1..n |-> (seed + 37 * i) % 256]

\* a 16-byte message buffer with the given address and opcode bytes
Buffer(b0, b1, seed) ==
    [i \in 1..CEC_MAX_MSG_SIZE |->
        IF i = 1 THEN b0 ELSE IF i = 2 THEN b1 ELSE (seed + 37 * i) % 256]

AddrDefault == <<Playback2, Audiosystem>>
AddrSample == { <<Playback2, UnregisteredBroadcast>>, <<Tv, Playback2>>,
                <<UnregisteredBroadcast, Tv>> }
AddrWide == CecLogicalAddress \X CecLogicalAddress

OpcodeDefault == Standby
OpcodeSample == { FeatureAbort, UserControlPressed, GiveAudioStatus,
                  VendorCommand }
OpcodeWide == CecOpcode

DataDefault == << >>
DataSample == { DataOf(1, 27), DataOf(14, 7), DataOf(15, 7) }
DataWide == { DataOf(n, s) : n \in 0..MaxDataLen, s \in {7, 27, 92} }

StatusDefault == <<TxStatus_OK, 0>>
StatusSample ==
    { <<0, 0>>, <<TxStatus_NACK + TxStatus_MAX_RETRIES, 0>>,
      <<TxStatus_OK, RxStatus_OK>>,
      <<TxStatus_OK, RxStatus_OK + RxStatus_FEATURE_ABORT>>,
      <<TxStatus_OK, RxStatus_TIMEOUT>> }
StatusWide == (0..TxStatus_all) \X (0..RxStatus_all)

WaitForDefault == ReportAudioStatus
WaitForSample == { FeatureAbort }
WaitForWide == CecOpcode

LenDefault == Len(<<0, 0, 0>>)
LenSample == { 1, 2, 4, CEC_MAX_MSG_SIZE }
LenWide == 1..CEC_MAX_MSG_SIZE

\* first byte of a received message: Audiosystem to Playback2
Byte0Default == Audiosystem * 16 + Playback2
Byte0Sample == { 15, 95, 255 }
Byte0Wide == Byte

\* second byte of a received message; 92 (0x5C) is no CecOpcode
Byte1Default == ReportAudioStatus
Byte1Sample == { FeatureAbort, 92 }
Byte1Wide == Byte

\* the errno values the ioctls fail with
Errnos == { "EINVAL", "EBUSY", "EAGAIN", "ETIMEDOUT", "ENOTTY" }

(* ------------------------------- state --------------------------------- *)

VARIABLES
    pc,         \* "idle", "returned" (a call came back) or "panicked"
    call,       \* the operation last called, with its arguments (and what
                \* each transmit it made returned to it)
    msg,        \* the CecMsg of that call, as the call left it
    submitted,  \* the messages that call handed to ioctl CEC_TRANSMIT
    result,     \* what the call returned
    decoded,    \* what the accessors of CecMsg returned for a message
    adap,       \* the adapter behind the device node, as the driver keeps it
    fh,         \* the open handle: its mode and its pending events
    peer,       \* another open handle of the same adapter
    last_mode,  \* the pair of the last set_mode call that was accepted
    before      \* the adapter and the handle as the last call found them

vars == <<pc, call, msg, submitted, result, decoded, adap, fh, peer,
          last_mode, before>>

NoCall == [name |-> "none", from |-> 0, to |-> 0, opcode |-> 0,
           data |-> << >>, wait_for |-> 0, timeout |-> 0,
           transmits |-> << >>]

NoMsg == CecMsg_init(Tv, Tv)

NoResult == [kind |-> "none", err |-> "", data |-> << >>]

NoDecoded == [valid |-> FALSE]

\* io::Result: Ok(()) / Ok(data)
Ok(data) == [kind |-> "Ok", err |-> "", data |-> data]

\* io::Result: Err(e)
Err(e) == [kind |-> "Err", err |-> e, data |-> << >>]

\* the thread panicked inside the call
Panic == [kind |-> "Panic", err |-> "", data |-> << >>]

\* std::io::Error from an errno (the ErrorKind std maps it to)
ErrorKindOf(errno) ==
    CASE errno = "EINVAL" -> "InvalidInput"
      [] errno = "EBUSY" -> "ResourceBusy"
      [] errno = "EAGAIN" -> "WouldBlock"
      [] errno = "ETIMEDOUT" -> "TimedOut"
      [] errno = "EPERM" -> "PermissionDenied"
      [] OTHER -> "Uncategorized"

(* ------------------------------ key codes ------------------------------ *)

Select == 0

Power == 64

VolumeUp == 65

(* ------------------------------ adapter -------------------------------- *)

CEC_PHYS_ADDR_INVALID == 65535

Playback1 == 4

CecLogAddrType_TV == 0

CecLogAddrType_PLAYBACK == 3

CecModeInitiator_None == 0

CecModeInitiator_Send == 1

CecModeInitiator_Exclusive == 2

CEC_MODE_INITIATOR_MSK == 15

CecModeFollower_RepliesOnly == 0

CecModeFollower_All == 16

CecModeFollower_Exclusive == 32

CecModeFollower_ExclusivePassthru == 48

CecModeFollower_Monitor == 224

CecModeFollower_MonitorAll == 240

CEC_MODE_FOLLOWER_MSK == 240

CecModeInitiator ==
    {CecModeInitiator_None, CecModeInitiator_Send, CecModeInitiator_Exclusive}

CecModeFollower ==
    {CecModeFollower_RepliesOnly, CecModeFollower_All,
     CecModeFollower_Exclusive, CecModeFollower_ExclusivePassthru,
     CecModeFollower_Monitor, CecModeFollower_MonitorAll}

ExclusiveModes ==
    {CecModeFollower_Exclusive, CecModeFollower_ExclusivePassthru}

FollowerModes == {CecModeFollower_All} \cup ExclusiveModes

MonitorModes == {CecModeFollower_Monitor, CecModeFollower_MonitorAll}

\* the handle is the adapter's exclusive initiator
ExclusiveInitiator(h) ==
    BitAnd(h.mode, CEC_MODE_INITIATOR_MSK) = CecModeInitiator_Exclusive

\* the handle is the adapter's exclusive follower
ExclusiveFollower(h) ==
    BitAnd(h.mode, CEC_MODE_FOLLOWER_MSK) \in ExclusiveModes

\* Capabilities: the flags the calls of this model depend on
Capabilities == {"PHYS_ADDR", "LOG_ADDRS", "TRANSMIT", "MONITOR_ALL"}

\* the capability sets of the adapters the model opens: a full one and one
\* per missing flag
CapsChoices == {Capabilities} \cup {Capabilities \ {c} : c \in Capabilities}

\* the most logical addresses one set_log of the model asks for
MaxRequested == 2

\* the physical addresses of the model: none, 1.0.0.0 and 2.0.0.0
PhysAddrs == {CEC_PHYS_ADDR_INVALID, 4096, 8192}

RECURSIVE Pow2(_)
Pow2(n) == IF n = 0 THEN 1 ELSE 2 * Pow2(n - 1)

\* CecLogAddrMask: the bit of every claimed logical address
RECURSIVE MaskOf(_)
MaskOf(addrs) ==
    IF addrs = << >> THEN 0
    ELSE BitOr(Pow2(Head(addrs)), MaskOf(Tail(addrs)))

\* the logical addresses a type may claim on the bus of the model
Candidates(type) ==
    IF type = CecLogAddrType_TV THEN {Tv} ELSE {Playback1, Playback2}

\* what claiming the requested types may give: for each requested type in
\* turn a free address of that type, or none when the bus has none left
RECURSIVE ClaimResults(_, _)
ClaimResults(types, taken) ==
    IF types = << >> THEN {<< >>}
    ELSE LET free == Candidates(Head(types)) \ taken
         IN  ClaimResults(Tail(types), taken) \cup
             UNION { { <<a>> \o r : r \in ClaimResults(Tail(types),
                                                       taken \cup {a}) }
                     : a \in free }

\* the adapter with nothing configured
NoAdapter(caps) ==
    [ caps          |-> caps,
      phys_addr     |-> CEC_PHYS_ADDR_INVALID,
      log_addr_type |-> << >>,
      log_addr      |-> << >>,
      log_addr_mask |-> 0,
      configuring   |-> FALSE ]

\* the adapter the message calls are explored on: every capability, a
\* physical address, Playback2 claimed
HomeAdapter ==
    [ caps          |-> Capabilities,
      phys_addr     |-> 4096,
      log_addr_type |-> <<CecLogAddrType_PLAYBACK>>,
      log_addr      |-> <<Playback2>>,
      log_addr_mask |-> MaskOf(<<Playback2>>),
      configuring   |-> FALSE ]

\* CecEventStateChange
StateChange(a) == [phys_addr |-> a.phys_addr, log_addr_mask |-> a.log_addr_mask]

\* the handle has taken no StateChange event yet
NoStateChange == [phys_addr |-> -1, log_addr_mask |-> -1]

\* enum CecEventType
CecEventType_StateChange == 1
CecEventType_LostMsgs == 2
CecEventType == {CecEventType_StateChange, CecEventType_LostMsgs}

\* the received messages a handle's queue has room for
RxQueueSize == 1

\* the most lost messages the model counts in one LostMsgs event
MaxLost == 2

\* a handle as CecDevice::open leaves it: blocking, initiator, replies
\* only, no message received, and the initial state queued as its
\* StateChange event.  pending holds the event types whose queue holds an
\* event, ev_state and lost_msgs the payload of the latest event of each
\* type; unseen tells that the adapter changed state (or the handle was
\* opened) after the handle last took a StateChange event, and last_read
\* is the payload of that event
NewHandle(a) ==
    [ mode      |-> BitOr(CecModeInitiator_Send, CecModeFollower_RepliesOnly),
      nonblock  |-> FALSE,
      rx        |-> 0,
      pending   |-> {CecEventType_StateChange},
      ev_state  |-> StateChange(a),
      lost_msgs |-> 0,
      unseen    |-> TRUE,
      last_read |-> NoStateChange ]

\* a handle as AsyncCec::open leaves it: O_NONBLOCK is set
NewAsyncHandle(a) == [NewHandle(a) EXCEPT !.nonblock = TRUE]

\* the adapter is not configured: it has claimed no logical address
Unconfigured(a) == a.log_addr_mask = 0

\* the adapter has claimed at least one logical address
LogicalAddressesClaimed(a) == a.log_addr_mask # 0

\* the adapter has a physical address and has claimed nothing yet
PhysicalAddressSet(a) ==
    a.phys_addr # CEC_PHYS_ADDR_INVALID /\ a.log_addr_mask = 0

\* no configuration call is under way
NoOld == [valid |-> FALSE]

\* what a configuration call found
Found == [valid |-> TRUE, adap |-> adap, fh |-> fh]

AtHome ==
    adap = HomeAdapter /\ fh = NewHandle(HomeAdapter)

\* the input budget of a call: away from the home adapter a call takes its
\* default inputs only
Budget == IF AtHome THEN InputBudget ELSE 0

Init ==
    /\ pc = "idle"
    /\ call = NoCall
    /\ msg = NoMsg
    /\ submitted = << >>
    /\ result = NoResult
    /\ decoded = NoDecoded
    /\ \E caps \in CapsChoices :
         adap \in { NoAdapter(caps),
                    [NoAdapter(caps) EXCEPT !.phys_addr = 4096],
                    [HomeAdapter EXCEPT !.caps = caps] }
    /\ fh = NewHandle(adap)
    /\ peer = NewHandle(adap)
    /\ last_mode = <<CecModeInitiator_Send, CecModeFollower_RepliesOnly>>
    /\ before = NoOld

(* ----------------------------- transport ------------------------------- *)

\* ioctl CEC_TRANSMIT accepted m: the driver fills in the status bits and
\* the sequence number; answer is what it leaves in len / msg (the message
\* as it was sent, or a reply it received)
ioctl_transmit(m, status, reply, answer) ==
    [m EXCEPT !.tx_status = status[1],
              !.rx_status = status[2],
              !.sequence = 1,
              !.reply = reply,
              !.len = answer.len,
              !.msg = answer.msg]

\* ioctl CEC_RECEIVE delivered a message: every field is the driver's
ioctl_receive(timeout, len, buf, status) ==
    [ len       |-> len,
      timeout   |-> timeout,
      sequence  |-> 0,
      msg       |-> buf,
      reply     |-> 0,
      rx_status |-> status[2],
      tx_status |-> status[1] ]

(* ----------------------------- operations ------------------------------ *)

CostAddr(a) == Cost(a, AddrDefault, AddrSample)
CostOpcode(o) == Cost(o, OpcodeDefault, OpcodeSample)
CostData(d) == Cost(d, DataDefault, DataSample)
CostStatus(st) == Cost(st, StatusDefault, StatusSample)
CostWaitFor(w) == Cost(w, WaitForDefault, WaitForSample)
CostLen(l) == Cost(l, LenDefault, LenSample)
CostByte0(b) == Cost(b, Byte0Default, Byte0Sample)
CostByte1(b) == Cost(b, Byte1Default, Byte1Sample)

\* how ioctl CEC_RECEIVE ends on handle h: with a message of its queue;
\* with EAGAIN if there is none and the handle does not block; on a
\* blocking handle with the message it waited for, or with ETIMEDOUT once
\* a timeout other than 0 has passed
ReceiveOutcomes(h, timeout) ==
    IF h.rx > 0 THEN {"accepted"}
    ELSE IF h.nonblock THEN {"EAGAIN"}
    ELSE IF timeout > 0 THEN {"accepted", "ETIMEDOUT"}
    ELSE {"accepted"}

\* the status bits CEC_TRANSMIT leaves in a message it took: on a handle
\* that does not block it returns before the message is sent, with none
TxStatuses(b) ==
    IF fh.nonblock THEN {<<0, 0>>}
    ELSE Dom(StatusDefault, StatusSample, StatusWide, b)

\* CEC_TRANSMIT that does not look at the initiator of the message
TransmitOutcomes_anyInitiator(from, to, reply, b) ==
    IF "TRANSMIT" \notin adap.caps THEN {"ENOTTY"}
    ELSE IF reply # 0 /\ to = UnregisteredBroadcast THEN {"EINVAL"}
    ELSE {"accepted"} \cup (IF b >= 1 THEN {"EBUSY"} ELSE {})

\* CEC_TRANSMIT that takes messages whatever the other handle holds
TransmitOutcomes_shared(from, to, reply, b) ==
    IF ~contains(adap.log_addr_mask, Pow2(from)) THEN {"EINVAL"}
    ELSE IF "TRANSMIT" \notin adap.caps THEN {"ENOTTY"}
    ELSE IF BitAnd(fh.mode, CEC_MODE_INITIATOR_MSK) = CecModeInitiator_None
         THEN {"EBUSY"}
    ELSE IF reply # 0 /\ to = UnregisteredBroadcast THEN {"EINVAL"}
    ELSE {"accepted"} \cup (IF b >= 1 THEN {"EBUSY"} ELSE {})

\* how ioctl CEC_TRANSMIT takes a message: not from an address the adapter
\* has not claimed, not at all without the TRANSMIT capability, not from a
\* handle that is no initiator, not while another handle is the exclusive
\* initiator unless the handle is the follower, not as a broadcast that
\* awaits a reply; otherwise it takes it, or its queue is full
TransmitOutcomes(from, to, reply, b) ==
    IF ~contains(adap.log_addr_mask, Pow2(from)) THEN {"EINVAL"}
    ELSE IF "TRANSMIT" \notin adap.caps THEN {"ENOTTY"}
    ELSE IF BitAnd(fh.mode, CEC_MODE_INITIATOR_MSK) = CecModeInitiator_None
         THEN {"EBUSY"}
    ELSE IF ExclusiveInitiator(peer) /\ ~ExclusiveFollower(fh)
         THEN {"EBUSY"}
    ELSE IF reply # 0 /\ to = UnregisteredBroadcast THEN {"EINVAL"}
    ELSE {"accepted"} \cup (IF b >= 1 THEN {"EBUSY"} ELSE {})

\* what CEC_TRANSMIT leaves in len / msg of a message that awaits no reply
Sent(m) == [kind |-> "sent", len |-> m.len, msg |-> m.msg]

\* what CEC_TRANSMIT may leave in len / msg of a message that awaited a
\* reply: the message as sent, or a received one of length l
Answers(m, l, b1) ==
    { Sent(m),
      [kind |-> "received", len |-> l,
       msg |-> Buffer(BitOr(Shl4(destination(m)), initiator(m)), b1, 11)] }

\* msg_to_io_result that asks is_ok
msg_to_io_result_isOk(m) ==
    IF is_ok(m) THEN Ok(<< >>) ELSE Err("Other")

\* msg_to_io_result
msg_to_io_result(m) ==
    IF contains(m.tx_status, TxStatus_OK) THEN Ok(<< >>) ELSE Err("Other")

\* request_data that takes a reply of three bytes to carry no parameters
request_result_len3(m) ==
    IF m.reply = FeatureAbort /\ ~contains(m.tx_status, TxStatus_OK)
    THEN Err("TimedOut")
    ELSE IF \/ m.reply # FeatureAbort
            \/ /\ m.reply = FeatureAbort
               /\ contains(m.rx_status, RxStatus_FEATURE_ABORT)
    THEN IF m.len > 3
         THEN IF RangeOk(m.msg, 2, m.len)
              THEN Ok(Slice(m.msg, 2, m.len))
              ELSE Panic
         ELSE Ok(<< >>)
    ELSE Err("TimedOut")

\* request_data without its first check
request_result_noTxCheck(m) ==
    IF \/ m.reply # FeatureAbort
       \/ /\ m.reply = FeatureAbort
          /\ contains(m.rx_status, RxStatus_FEATURE_ABORT)
    THEN IF m.len > 2
         THEN IF RangeOk(m.msg, 2, m.len)
              THEN Ok(Slice(m.msg, 2, m.len))
              ELSE Panic
         ELSE Ok(<< >>)
    ELSE Err("TimedOut")

\* CecDevice::request_data, from the return of the ioctl on: what the call
\* returns for the message m the driver left
request_result(m) ==
    IF m.reply = FeatureAbort /\ ~contains(m.tx_status, TxStatus_OK)
    THEN Err("TimedOut")
    ELSE IF \/ m.reply # FeatureAbort
            \/ /\ m.reply = FeatureAbort
               /\ contains(m.rx_status, RxStatus_FEATURE_ABORT)
    THEN IF m.len > 2
         THEN IF RangeOk(m.msg, 2, m.len)
              THEN Ok(Slice(m.msg, 2, m.len))
              ELSE Panic
         ELSE Ok(<< >>)
    ELSE Err("TimedOut")

\* CecMsg::init, called on its own: the message of a poll
init ==
    /\ pc = "idle"
    /\ \E a \in Dom(AddrDefault, AddrSample, AddrWide, Budget) :
         /\ call' = [NoCall EXCEPT !.name = "init", !.from = a[1],
                                   !.to = a[2]]
         /\ msg' = CecMsg_init(a[1], a[2])
    /\ submitted' = << >>
    /\ result' = Ok(<< >>)
    /\ pc' = "returned"
    /\ decoded' = NoDecoded
    /\ UNCHANGED <<adap, fh, peer, last_mode, before>>

\* CecDevice::transmit
transmit ==
    /\ pc = "idle"
    /\ \E a \in Dom(AddrDefault, AddrSample, AddrWide, Budget) :
       \E o \in Dom(OpcodeDefault, OpcodeSample, OpcodeWide,
                    Budget - CostAddr(a)) :
       \E st \in TxStatuses(Budget - CostAddr(a) - CostOpcode(o)) :
       \E outcome \in TransmitOutcomes(a[1], a[2], 0,
                            Budget - CostAddr(a) - CostOpcode(o)
                            - CostStatus(st)) :
         LET built == [CecMsg_init(a[1], a[2]) EXCEPT
                          !.msg[2] = o, !.len = 2]
             back == ioctl_transmit(built, st, built.reply, Sent(built))
         IN  /\ call' = [NoCall EXCEPT !.name = "transmit", !.from = a[1],
                                       !.to = a[2], !.opcode = o]
             /\ submitted' = <<built>>
             /\ IF outcome = "accepted"
                THEN /\ msg' = back
                     /\ result' = msg_to_io_result(back)
                ELSE /\ msg' = built
                     /\ result' = Err(ErrorKindOf(outcome))
             /\ pc' = "returned"
             /\ decoded' = NoDecoded
             /\ UNCHANGED <<adap, fh, peer, last_mode, before>>

\* CecDevice::transmit_data
transmit_data ==
    /\ pc = "idle"
    /\ \E a \in Dom(AddrDefault, AddrSample, AddrWide, Budget) :
       \E o \in Dom(OpcodeDefault, OpcodeSample, OpcodeWide,
                    Budget - CostAddr(a)) :
       \E d \in Dom(DataDefault, DataSample, DataWide,
                    Budget - CostAddr(a) - CostOpcode(o)) :
       \E st \in TxStatuses(Budget - CostAddr(a) - CostOpcode(o)
                                 - CostData(d)) :
       \E outcome \in TransmitOutcomes(a[1], a[2], 0,
                            Budget - CostAddr(a) - CostOpcode(o)
                            - CostData(d) - CostStatus(st)) :
         LET m1 == [CecMsg_init(a[1], a[2]) EXCEPT
                       !.msg[2] = o, !.len = 2 + Len(d)]
             built == [m1 EXCEPT !.msg = CopyInto(m1.msg, 2, m1.len, d)]
             back == ioctl_transmit(built, st, built.reply, Sent(built))
         IN  /\ call' = [NoCall EXCEPT !.name = "transmit_data",
                                       !.from = a[1], !.to = a[2],
                                       !.opcode = o, !.data = d]
             /\ IF ~RangeOk(m1.msg, 2, m1.len)
                THEN \* msg.msg[2..msg.len] is out of range
                     /\ st = StatusDefault
                     /\ msg' = m1
                     /\ submitted' = << >>
                     /\ result' = Panic
                     /\ pc' = "panicked"
                ELSE /\ submitted' = <<built>>
                     /\ pc' = "returned"
                     /\ IF outcome = "accepted"
                        THEN /\ msg' = back
                             /\ result' = msg_to_io_result(back)
                        ELSE /\ msg' = built
                             /\ result' = Err(ErrorKindOf(outcome))
             /\ decoded' = NoDecoded
             /\ UNCHANGED <<adap, fh, peer, last_mode, before>>

\* a request that waits twice as long for its reply
awaiting_twiceAsLong(m, wait_for) ==
    [m EXCEPT !.reply = wait_for, !.timeout = 2 * 1000]

\* request_data marks the message it built: msg.reply = wait_for and
\* msg.timeout = 1000
awaiting(m, wait_for) ==
    [m EXCEPT !.reply = wait_for, !.timeout = 1000]

\* CecDevice::request_data
request_data ==
    /\ pc = "idle"
    /\ ~fh.nonblock
    /\ \E a \in Dom(AddrDefault, AddrSample, AddrWide, Budget) :
       \E o \in Dom(GiveAudioStatus, {VendorCommand}, OpcodeWide,
                    Budget - CostAddr(a)) :
       \E d \in Dom(DataDefault, DataSample, DataWide,
                    Budget - CostAddr(a)
                    - Cost(o, GiveAudioStatus, {VendorCommand})) :
       \E w \in Dom(WaitForDefault, WaitForSample, WaitForWide,
                    Budget - CostAddr(a)
                    - Cost(o, GiveAudioStatus, {VendorCommand})
                    - CostData(d)) :
       LET left == Budget - CostAddr(a)
                   - Cost(o, GiveAudioStatus, {VendorCommand})
                   - CostData(d) - CostWaitFor(w)
       IN
       \E st \in Dom(StatusDefault, StatusSample, StatusWide, left) :
       \E l \in Dom(LenDefault, LenSample, LenWide, left - CostStatus(st)) :
       \E outcome \in TransmitOutcomes(a[1], a[2], w,
                            left - CostStatus(st) - CostLen(l)) :
       \E reply \in {w, FeatureAbort} :
         LET m1 == [CecMsg_init(a[1], a[2]) EXCEPT
                       !.msg[2] = o, !.len = 2 + Len(d)]
             m2 == [m1 EXCEPT !.msg = CopyInto(m1.msg, 2, m1.len, d)]
             built == awaiting(m2, w)
         IN
         \E answer \in Answers(built, l, reply) :
         LET back == ioctl_transmit(built, st, reply, answer)
         IN  /\ call' = [NoCall EXCEPT !.name = "request_data",
                                       !.from = a[1], !.to = a[2],
                                       !.opcode = o, !.data = d,
                                       !.wait_for = w]
             /\ IF ~RangeOk(m1.msg, 2, m1.len)
                THEN \* msg.msg[2..msg.len] is out of range
                     /\ st = StatusDefault
                     /\ l = LenDefault
                     /\ reply = w
                     /\ answer = Sent(built)
                     /\ msg' = m1
                     /\ submitted' = << >>
                     /\ result' = Panic
                     /\ pc' = "panicked"
                ELSE /\ submitted' = <<built>>
                     /\ IF outcome # "accepted"
                        THEN /\ reply = w
                             /\ answer = Sent(built)
                             /\ msg' = built
                             /\ result' = Err(ErrorKindOf(outcome))
                             /\ pc' = "returned"
                        ELSE /\ msg' = back
                             /\ result' = request_result(back)
                             /\ pc' = IF request_result(back).kind = "Panic"
                                      THEN "panicked" ELSE "returned"
             /\ decoded' = NoDecoded
             /\ UNCHANGED <<adap, fh, peer, last_mode, before>>

\* CecDevice::rec_for (CecDevice::rec is rec_for(0))
rec_for ==
    /\ pc = "idle"
    /\ \E timeout \in (IF fh.nonblock THEN {0} ELSE {0, 100}) :
       \E b0 \in Dom(Byte0Default, Byte0Sample, Byte0Wide, Budget) :
       \E b1 \in Dom(Byte1Default, Byte1Sample, Byte1Wide,
                     Budget - CostByte0(b0)) :
       \E l \in Dom(LenDefault, LenSample, LenWide,
                    Budget - CostByte0(b0) - CostByte1(b1)) :
       \E st \in Dom(<<0, RxStatus_OK>>, StatusSample, StatusWide,
                     Budget - CostByte0(b0) - CostByte1(b1)
                     - CostLen(l)) :
       \E outcome \in ReceiveOutcomes(fh, timeout) :
         /\ call' = [NoCall EXCEPT !.name = "rec_for", !.timeout = timeout]
         /\ IF outcome = "accepted"
            THEN /\ msg' = ioctl_receive(timeout, l, Buffer(b0, b1, 11), st)
                 /\ result' = Ok(<< >>)
                 /\ fh' = [fh EXCEPT !.rx = IF @ > 0 THEN @ - 1 ELSE @]
            ELSE /\ b0 = Byte0Default /\ b1 = Byte1Default
                 /\ l = LenDefault /\ st = <<0, RxStatus_OK>>
                 /\ msg' = NoMsg
                 /\ result' = Err(ErrorKindOf(outcome))
                 /\ fh' = fh
    /\ submitted' = << >>
    /\ pc' = "returned"
    /\ decoded' = NoDecoded
    /\ before' = Found
    /\ UNCHANGED <<adap, peer, last_mode>>

\* what one CEC_TRANSMIT of a message that awaits no reply leaves and
\* returns
Transmitted(built, st, outcome) ==
    IF outcome = "accepted"
    THEN LET back == ioctl_transmit(built, st, built.reply, Sent(built))
         IN  [msg |-> back, result |-> msg_to_io_result(back)]
    ELSE [msg |-> built, result |-> Err(ErrorKindOf(outcome))]

\* keypress that sends the release whatever the press returned
keypress_call_alwaysRelease(from, to, key, st1, o1, st2, o2) ==
    LET m1 == [CecMsg_init(from, to) EXCEPT
                  !.msg[2] = UserControlPressed, !.len = 3]
        press == [m1 EXCEPT !.msg = CopyInto(m1.msg, 2, m1.len, <<key>>)]
        first == Transmitted(press, st1, o1)
        release == [CecMsg_init(from, to) EXCEPT
                       !.msg[2] = UserControlReleased, !.len = 2]
        second == Transmitted(release, st2, o2)
    IN  [submitted |-> <<press, release>>, msg |-> second.msg,
         result |-> second.result,
         transmits |-> <<first.result, second.result>>]

\* CecDevice::keypress: the press, and after a press that returned Ok the
\* release
keypress_call(from, to, key, st1, o1, st2, o2) ==
    LET m1 == [CecMsg_init(from, to) EXCEPT
                  !.msg[2] = UserControlPressed, !.len = 3]
        press == [m1 EXCEPT !.msg = CopyInto(m1.msg, 2, m1.len, <<key>>)]
        first == Transmitted(press, st1, o1)
        release == [CecMsg_init(from, to) EXCEPT
                       !.msg[2] = UserControlReleased, !.len = 2]
        second == Transmitted(release, st2, o2)
    IN  IF first.result.kind # "Ok"
        THEN [submitted |-> <<press>>, msg |-> first.msg,
              result |-> first.result, transmits |-> <<first.result>>]
        ELSE [submitted |-> <<press, release>>, msg |-> second.msg,
              result |-> second.result,
              transmits |-> <<first.result, second.result>>]

\* turn_on that presses Power whatever the destination
turn_on_call_keyOnly(from, to, st1, o1, st2, o2) ==
    keypress_call(from, to, Power, st1, o1, st2, o2)

\* CecDevice::turn_on
turn_on_call(from, to, st1, o1, st2, o2) ==
    IF to = Tv
    THEN LET built == [CecMsg_init(from, to) EXCEPT
                          !.msg[2] = ImageViewOn, !.len = 2]
             only == Transmitted(built, st1, o1)
         IN  [submitted |-> <<built>>, msg |-> only.msg,
              result |-> only.result, transmits |-> <<only.result>>]
    ELSE keypress_call(from, to, Power, st1, o1, st2, o2)

KeyDefault == Power
KeySample == { Select, VolumeUp }
CostKey(k) == Cost(k, KeyDefault, KeySample)

TurnOnAddrSample == { <<Playback2, Tv>> }
CostTurnOnAddr(a) == Cost(a, AddrDefault, TurnOnAddrSample)

\* CecDevice::keypress
keypress ==
    /\ pc = "idle"
    /\ ~fh.nonblock
    /\ \E a \in Dom(AddrDefault, AddrSample, AddrWide, Budget) :
       \E k \in Dom(KeyDefault, KeySample, KeySample, Budget - CostAddr(a)) :
       LET left == Budget - CostAddr(a) - CostKey(k)
       IN
       \E st1 \in Dom(StatusDefault, StatusSample, StatusWide, left) :
       \E o1 \in TransmitOutcomes(a[1], a[2], 0, left - CostStatus(st1)) :
       \E st2 \in Dom(StatusDefault, StatusSample, StatusWide,
                      left - CostStatus(st1)) :
       \E o2 \in TransmitOutcomes(a[1], a[2], 0,
                                  left - CostStatus(st1) - CostStatus(st2)) :
         LET done == keypress_call(a[1], a[2], k, st1, o1, st2, o2)
         IN  /\ call' = [NoCall EXCEPT !.name = "keypress", !.from = a[1],
                                       !.to = a[2], !.data = <<k>>,
                                       !.transmits = done.transmits]
             /\ submitted' = done.submitted
             /\ msg' = done.msg
             /\ result' = done.result
    /\ pc' = "returned"
    /\ decoded' = NoDecoded
    /\ UNCHANGED <<adap, fh, peer, last_mode, before>>

\* CecDevice::turn_on
turn_on ==
    /\ pc = "idle"
    /\ ~fh.nonblock
    /\ \E a \in Dom(AddrDefault, TurnOnAddrSample, AddrWide, Budget) :
       LET left == Budget - CostTurnOnAddr(a)
       IN
       \E st1 \in Dom(StatusDefault, StatusSample, StatusWide, left) :
       \E o1 \in TransmitOutcomes(a[1], a[2], 0, left - CostStatus(st1)) :
       \E st2 \in Dom(StatusDefault, StatusSample, StatusWide,
                      left - CostStatus(st1)) :
       \E o2 \in TransmitOutcomes(a[1], a[2], 0,
                                  left - CostStatus(st1) - CostStatus(st2)) :
         LET done == turn_on_call(a[1], a[2], st1, o1, st2, o2)
         IN  /\ call' = [NoCall EXCEPT !.name = "turn_on", !.from = a[1],
                                       !.to = a[2],
                                       !.transmits = done.transmits]
             /\ submitted' = done.submitted
             /\ msg' = done.msg
             /\ result' = done.result
    /\ pc' = "returned"
    /\ decoded' = NoDecoded
    /\ UNCHANGED <<adap, fh, peer, last_mode, before>>

(* ------------------------- adapter operations -------------------------- *)

\* the driver's answer to a configuration ioctl
Refused(errno, a) == [errno |-> errno, adap |-> a]
Done(a) == [errno |-> "ok", adap |-> a]

\* claiming that records the addresses and leaves the mask as it was
Claim_staleMask(a, claimed) ==
    [a EXCEPT !.log_addr = claimed]

\* the adapter after its claiming of logical addresses ended with claimed
Claim(a, claimed) ==
    [a EXCEPT !.log_addr = claimed, !.log_addr_mask = MaskOf(claimed)]

\* claiming that does not wait for a physical address
Claims_withoutPhys(a) ==
    ClaimResults(a.log_addr_type, {})

\* how claiming may end: nothing is claimed without a physical address
Claims(a) ==
    IF a.phys_addr = CEC_PHYS_ADDR_INVALID THEN {<< >>}
    ELSE ClaimResults(a.log_addr_type, {})

\* clearing that forgets the requested types and leaves what was claimed
Cleared_typesOnly(a) ==
    [a EXCEPT !.log_addr_type = << >>]

\* the adapter with its logical addresses cleared
Cleared(a) ==
    [a EXCEPT !.log_addr_type = << >>, !.log_addr = << >>,
              !.log_addr_mask = 0]

NoInitiator(mode) ==
    BitAnd(mode, CEC_MODE_INITIATOR_MSK) = CecModeInitiator_None

\* CEC_ADAP_S_PHYS_ADDR that does not ask for an initiator
ioctl_set_phys_anyMode(a, mode, addr) ==
    IF "PHYS_ADDR" \notin a.caps THEN {Refused("ENOTTY", a)}
    ELSE IF addr = a.phys_addr THEN {Done(a)}
    ELSE LET moved == [a EXCEPT !.phys_addr = addr]
         IN  {Done(Claim(moved, c)) : c \in Claims(moved)}

\* ioctl CEC_ADAP_S_PHYS_ADDR on a blocking handle
ioctl_set_phys(a, mode, addr) ==
    IF "PHYS_ADDR" \notin a.caps THEN {Refused("ENOTTY", a)}
    ELSE IF NoInitiator(mode) THEN {Refused("EBUSY", a)}
    ELSE IF addr = a.phys_addr THEN {Done(a)}
    ELSE LET moved == [a EXCEPT !.phys_addr = addr]
         IN  {Done(Claim(moved, c)) : c \in Claims(moved)}

\* CEC_ADAP_S_LOG_ADDRS that replaces the types already defined
ioctl_set_log_redefine(a, mode, log) ==
    IF "LOG_ADDRS" \notin a.caps THEN {Refused("ENOTTY", a)}
    ELSE IF NoInitiator(mode) THEN {Refused("EBUSY", a)}
    ELSE IF log.num_log_addrs = 0 THEN {Done(Cleared(a))}
    ELSE LET typed == [a EXCEPT !.log_addr_type =
                          SubSeq(log.log_addr_type, 1, log.num_log_addrs)]
         IN  {Done(Claim(typed, c)) : c \in Claims(typed)}

\* ioctl CEC_ADAP_S_LOG_ADDRS on a blocking handle
ioctl_set_log(a, mode, log) ==
    IF "LOG_ADDRS" \notin a.caps THEN {Refused("ENOTTY", a)}
    ELSE IF NoInitiator(mode) THEN {Refused("EBUSY", a)}
    ELSE IF log.num_log_addrs = 0 THEN {Done(Cleared(a))}
    ELSE IF a.log_addr_type # << >> THEN {Refused("EBUSY", a)}
    ELSE LET typed == [a EXCEPT !.log_addr_type =
                          SubSeq(log.log_addr_type, 1, log.num_log_addrs)]
         IN  {Done(Claim(typed, c)) : c \in Claims(typed)}

\* CEC_S_MODE that lets a handle without initiator follow
ioctl_set_mode_anyFollower(a, mode) ==
    LET i == BitAnd(mode, CEC_MODE_INITIATOR_MSK)
        f == BitAnd(mode, CEC_MODE_FOLLOWER_MSK)
    IN  IF i \notin CecModeInitiator \/ f \notin CecModeFollower
        THEN {"EINVAL"}
        ELSE IF f \in MonitorModes /\ i # CecModeInitiator_None
        THEN {"EINVAL"}
        ELSE IF f = CecModeFollower_MonitorAll /\ "MONITOR_ALL" \notin a.caps
        THEN {"EINVAL"}
        ELSE {"ok"}

\* ioctl CEC_S_MODE: the combinations the driver refuses, and for the
\* others what keeps it from granting them (the other handle, or one of
\* another process, holds the exclusive role; the process may not monitor)
ioctl_set_mode(a, mode) ==
    LET i == BitAnd(mode, CEC_MODE_INITIATOR_MSK)
        f == BitAnd(mode, CEC_MODE_FOLLOWER_MSK)
    IN  IF i \notin CecModeInitiator \/ f \notin CecModeFollower
        THEN {"EINVAL"}
        ELSE IF f \in FollowerModes
                /\ (i = CecModeInitiator_None \/ "TRANSMIT" \notin a.caps)
        THEN {"EINVAL"}
        ELSE IF f \in MonitorModes /\ i # CecModeInitiator_None
        THEN {"EINVAL"}
        ELSE IF f = CecModeFollower_MonitorAll /\ "MONITOR_ALL" \notin a.caps
        THEN {"EINVAL"}
        ELSE IF \/ i = CecModeInitiator_Exclusive /\ ExclusiveInitiator(peer)
                \/ f \in ExclusiveModes /\ ExclusiveFollower(peer)
        THEN {"EBUSY"}
        ELSE {"ok"}
             \cup (IF f \in MonitorModes THEN {"EPERM"} ELSE {})
             \cup (IF i = CecModeInitiator_Exclusive \/ f \in ExclusiveModes
                   THEN {"EBUSY"} ELSE {})

\* events for a change of the physical address only
Notify_physOnly(h, old, new) ==
    IF new.phys_addr # old.phys_addr
    THEN [h EXCEPT !.ev_state = StateChange(new),
                   !.pending = @ \cup {CecEventType_StateChange}]
    ELSE h

\* events that do not replace an event the handle has not taken yet
Notify_keepFirst(h, old, new) ==
    IF StateChange(new) # StateChange(old)
       /\ CecEventType_StateChange \notin h.pending
    THEN [h EXCEPT !.ev_state = StateChange(new),
                   !.pending = @ \cup {CecEventType_StateChange}]
    ELSE h

\* the handle after the adapter went from old to new: a change of the
\* physical address or of the claimed addresses queues a StateChange event
Notify(h, old, new) ==
    IF StateChange(new) # StateChange(old)
    THEN [h EXCEPT !.ev_state = StateChange(new),
                   !.pending = @ \cup {CecEventType_StateChange}]
    ELSE h

\* the handle after the adapter went from old to new, with the note of
\* whether the adapter changed state since the handle last took a
\* StateChange event
Observed(h, old, new) ==
    [Notify(h, old, new) EXCEPT
        !.unseen = @ \/ StateChange(new) # StateChange(old)]

\* a configuration ioctl that waits for the claiming on every handle
Returned_waiting(h, a, backs) == backs

\* what a configuration ioctl returns on handle h, backs being what it
\* returns once the claiming it starts has ended: a handle that does not
\* block gets the adapter back while it still claims
Returned(h, a, backs) ==
    IF h.nonblock
    THEN { IF /\ b.errno = "ok"
              /\ b.adap # a
              /\ b.adap.phys_addr # CEC_PHYS_ADDR_INVALID
              /\ b.adap.log_addr_type # << >>
           THEN Done([b.adap EXCEPT !.log_addr = << >>, !.log_addr_mask = 0,
                                    !.configuring = TRUE])
           ELSE b : b \in backs }
    ELSE backs

\* io::Result of a configuration call
io_result(errno) == IF errno = "ok" THEN Ok(<< >>) ELSE Err(ErrorKindOf(errno))

\* the CecLogAddrs a caller hands to set_log: how many addresses, of which
\* type, and whatever it left in the fields the driver sets
CecLogAddrs ==
    [ num_log_addrs : 0..MaxRequested,
      log_addr_type : { [i \in 1..MaxRequested |-> t] :
                        t \in {CecLogAddrType_PLAYBACK, CecLogAddrType_TV} },
      log_addr_mask : {0, MaskOf(<<Playback1>>)} ]

\* CecDevice::set_phys
set_phys ==
    /\ pc = "idle"
    /\ \E addr \in PhysAddrs :
       \E back \in Returned(fh, adap, ioctl_set_phys(adap, fh.mode, addr)) :
         /\ call' = [NoCall EXCEPT !.name = "set_phys", !.data = <<addr>>]
         /\ adap' = back.adap
         /\ fh' = Observed(fh, adap, back.adap)
         /\ peer' = Observed(peer, adap, back.adap)
         /\ result' = io_result(back.errno)
    /\ pc' = "returned"
    /\ before' = Found
    /\ UNCHANGED <<msg, submitted, decoded, last_mode>>

\* CecDevice::set_log
set_log ==
    /\ pc = "idle"
    /\ \E log \in CecLogAddrs :
       \E back \in Returned(fh, adap, ioctl_set_log(adap, fh.mode, log)) :
         /\ call' = [NoCall EXCEPT !.name = "set_log",
                        !.data = <<log.num_log_addrs, log.log_addr_type[1],
                                   log.log_addr_mask>>]
         /\ adap' = back.adap
         /\ fh' = Observed(fh, adap, back.adap)
         /\ peer' = Observed(peer, adap, back.adap)
         /\ result' = io_result(back.errno)
    /\ pc' = "returned"
    /\ before' = Found
    /\ UNCHANGED <<msg, submitted, decoded, last_mode>>

\* CecDevice::set_mode
set_mode ==
    /\ pc = "idle"
    /\ \E initiator_ \in CecModeInitiator :
       \E follower \in CecModeFollower :
         LET mode == BitOr(initiator_, follower)
         IN  \E errno \in ioctl_set_mode(adap, mode) :
               /\ call' = [NoCall EXCEPT !.name = "set_mode",
                                         !.data = <<initiator_, follower>>]
               /\ fh' = IF errno = "ok" THEN [fh EXCEPT !.mode = mode] ELSE fh
               /\ last_mode' = IF errno = "ok" THEN <<initiator_, follower>>
                               ELSE last_mode
               /\ result' = io_result(errno)
    /\ pc' = "returned"
    /\ before' = Found
    /\ UNCHANGED <<msg, submitted, decoded, adap, peer>>

\* CecDevice::get_mode
get_mode ==
    /\ pc = "idle"
    /\ LET i == BitAnd(fh.mode, CEC_MODE_INITIATOR_MSK)
           e == BitAnd(fh.mode, CEC_MODE_FOLLOWER_MSK)
       IN  result' = IF i \in CecModeInitiator /\ e \in CecModeFollower
                     THEN Ok(<<i, e>>) ELSE Err("Other")
    /\ call' = [NoCall EXCEPT !.name = "get_mode"]
    /\ pc' = "returned"
    /\ before' = Found
    /\ UNCHANGED <<msg, submitted, decoded, adap, fh, peer, last_mode>>

\* CEC_ADAP_G_LOG_ADDRS that reports the addresses asked for as claimed
ioctl_get_log_requested(a) ==
    [ num_log_addrs |-> Len(a.log_addr_type),
      log_addr      |-> [i \in 1..Len(a.log_addr_type) |-> Playback1],
      log_addr_mask |-> a.log_addr_mask ]

\* ioctl CEC_ADAP_G_LOG_ADDRS: the fields the driver sets
ioctl_get_log(a) ==
    [ num_log_addrs |-> Len(a.log_addr),
      log_addr      |-> a.log_addr,
      log_addr_mask |-> a.log_addr_mask ]

\* CecDevice::get_log
get_log ==
    /\ pc = "idle"
    /\ call' = [NoCall EXCEPT !.name = "get_log"]
    /\ LET log == ioctl_get_log(adap)
       IN  result' = Ok(<<log.num_log_addrs, log.log_addr,
                          log.log_addr_mask>>)
    /\ pc' = "returned"
    /\ before' = Found
    /\ UNCHANGED <<msg, submitted, decoded, adap, fh, peer, last_mode>>

\* the first word of the payload of the event of type typ in the queues of
\* handle h: phys_addr in its low and log_addr_mask in its high half, or
\* lost_msgs
Payload(h, typ) ==
    IF typ = CecEventType_StateChange
    THEN h.ev_state.phys_addr + 65536 * h.ev_state.log_addr_mask
    ELSE h.lost_msgs

\* the handle after the event of type typ was taken from its queue
Dequeued(h, typ) ==
    IF typ = CecEventType_StateChange
    THEN [h EXCEPT !.pending = @ \ {typ}, !.unseen = FALSE,
                   !.last_read = h.ev_state]
    ELSE [h EXCEPT !.pending = @ \ {typ}, !.lost_msgs = 0]

\* ioctl CEC_DQEVENT on handle h: an event of a type whose queue holds
\* one; if none does, EAGAIN on a handle that does not block, and no
\* return on one that blocks
ioctl_get_event(h) ==
    IF h.pending = {}
    THEN IF h.nonblock THEN {[errno |-> "EAGAIN", fh |-> h]} ELSE {}
    ELSE {[errno |-> "ok", typ |-> typ, payload |-> Payload(h, typ),
           fh |-> Dequeued(h, typ)] : typ \in h.pending}

\* get_event that reads every payload as a lost-message count
get_event_result_asLostMsgs(evt) ==
    IF evt.errno # "ok" THEN Err(ErrorKindOf(evt.errno))
    ELSE Ok(<<CecEventType_LostMsgs, evt.payload>>)

\* CecDevice::get_event, from the return of the ioctl on: the variant of
\* CecEvent for evt.typ, with the payload read as that variant's struct
get_event_result(evt) ==
    IF evt.errno # "ok" THEN Err(ErrorKindOf(evt.errno))
    ELSE IF evt.typ = CecEventType_LostMsgs
    THEN Ok(<<CecEventType_LostMsgs, evt.payload>>)
    ELSE Ok(<<CecEventType_StateChange, evt.payload % 65536,
              evt.payload \div 65536>>)

\* CecDevice::get_event
get_event ==
    /\ pc = "idle"
    /\ \E evt \in ioctl_get_event(fh) :
         /\ fh' = evt.fh
         /\ result' = get_event_result(evt)
    /\ call' = [NoCall EXCEPT !.name = "get_event"]
    /\ pc' = "returned"
    /\ before' = Found
    /\ UNCHANGED <<msg, submitted, decoded, adap, peer, last_mode>>

\* the driver has a message for the handle: it queues it, or, the queue
\* being full, loses it and tells so in a LostMsgs event that replaces the
\* one the handle has not taken yet
arrive ==
    /\ pc = "idle"
    /\ IF fh.rx < RxQueueSize
       THEN fh' = [fh EXCEPT !.rx = @ + 1]
       ELSE /\ fh.lost_msgs < MaxLost
            /\ fh' = [fh EXCEPT !.lost_msgs = @ + 1,
                                !.pending = @ \cup {CecEventType_LostMsgs}]
    /\ UNCHANGED <<pc, call, msg, submitted, result, decoded, adap, peer,
                   last_mode, before>>

\* the claiming a handle that does not block has started comes to its end
claimed ==
    /\ pc = "idle"
    /\ adap.configuring
    /\ \E c \in Claims(adap) :
         /\ adap' = [Claim(adap, c) EXCEPT !.configuring = FALSE]
         /\ fh' = Observed(fh, adap, adap')
         /\ peer' = Observed(peer, adap, adap')
    /\ UNCHANGED <<pc, call, msg, submitted, result, decoded, last_mode,
                   before>>

\* the program goes on with its other handle
Switch ==
    /\ pc = "idle"
    /\ fh' = peer
    /\ peer' = fh
    /\ last_mode' = <<BitAnd(peer.mode, CEC_MODE_INITIATOR_MSK),
                      BitAnd(peer.mode, CEC_MODE_FOLLOWER_MSK)>>
    /\ UNCHANGED <<pc, call, msg, submitted, result, decoded, adap, before>>

\* the messages the program holds after the call: the one the call built
\* and handed to the transport, and the one the transport left
Held ==
    {submitted[i] : i \in 1..Len(submitted)} \cup
    (IF result.kind = "Ok" \/ call.name \in {"transmit", "transmit_data",
                                            "request_data"}
     THEN {msg} ELSE {})

\* the accessors of CecMsg, applied to a message the program holds
Decode ==
    /\ pc = "returned"
    /\ ~decoded.valid
    /\ \E m \in Held :
         decoded' = [ valid        |-> TRUE,
                      of           |-> m,
                      initiator    |-> initiator(m),
                      destination  |-> destination(m),
                      opcode       |-> opcode(m),
                      parameters   |-> parameters(m),
                      is_broadcast |-> is_broadcast(m),
                      is_ok        |-> is_ok(m) ]
    /\ UNCHANGED <<pc, call, msg, submitted, result, adap, fh, peer,
                   last_mode, before>>

\* the caller drops what the call returned and is free to call again
Drop ==
    /\ pc = "returned"
    /\ pc' = "idle"
    /\ call' = NoCall
    /\ msg' = NoMsg
    /\ submitted' = << >>
    /\ result' = NoResult
    /\ decoded' = NoDecoded
    /\ before' = NoOld
    /\ UNCHANGED <<adap, fh, peer, last_mode>>

\* the handles of the event and receive calls: the adapter is the home
\* adapter or a new one, the handle blocks or does not
InitEvents ==
    /\ pc = "idle"
    /\ call = NoCall
    /\ msg = NoMsg
    /\ submitted = << >>
    /\ result = NoResult
    /\ decoded = NoDecoded
    /\ adap \in {HomeAdapter, NoAdapter(Capabilities)}
    /\ fh \in {NewHandle(adap), NewAsyncHandle(adap)}
    /\ peer = NewHandle(adap)
    /\ last_mode = <<CecModeInitiator_Send, CecModeFollower_RepliesOnly>>
    /\ before = NoOld

\* the calls that take events and messages from a handle's queues, the
\* calls that make the adapter change state, and what the driver does in
\* between
NextEvents ==
    \/ set_phys
    \/ set_log
    \/ get_log
    \/ get_event
    \/ rec_for
    \/ transmit
    \/ arrive
    \/ claimed
    \/ Drop

SpecEvents == InitEvents /\ [][NextEvents]_vars

\* two handles and the modes they ask for
NextModes ==
    \/ set_mode
    \/ get_mode
    \/ transmit
    \/ Switch
    \/ Drop

SpecModes == Init /\ [][NextModes]_vars

(* ------------------------------ OSDStr<MAX> ---------------------------- *)

\* the const parameter MAX of the OSDStr the model converts to
OsdMax == 3

\* the characters of the model's strings: NUL, 'A', 'z' and U+00E9
Chars == {0, 65, 122, 233}

\* the bytes of the model's byte slices: NUL, b'A' and a byte above 0x7F
SliceBytes == {0, 65, 200}

\* every String of at most OsdMax + 1 characters
Strings == UNION { [1..n -> Chars] : n \in 0..(OsdMax + 1) }

\* every &[u8] of at most OsdMax + 1 bytes
Slices == UNION { [1..n -> SliceBytes] : n \in 0..(OsdMax + 1) }

\* the UTF-8 encoding of one character below U+0800
Utf8(c) == IF c < 128 THEN <<c>> ELSE <<192 + (c \div 64), 128 + (c % 64)>>

\* String::into_bytes
RECURSIVE into_bytes(_)
into_bytes(s) ==
    IF s = << >> THEN << >> ELSE Utf8(Head(s)) \o into_bytes(Tail(s))

\* str::is_ascii
is_ascii(s) == \A i \in 1..Len(s) : s[i] < 128

\* Vec::resize(new_len, value): truncates or pads
resize(v, new_len, value) ==
    [i \in 1..new_len |-> IF i <= Len(v) THEN v[i] ELSE value]

\* std::str::from_utf8 accepts the bytes (sequences of one or two bytes)
RECURSIVE Utf8Valid(_)
Utf8Valid(b) ==
    IF b = << >> THEN TRUE
    ELSE IF b[1] < 128 THEN Utf8Valid(Tail(b))
    ELSE /\ b[1] >= 194 /\ b[1] < 224
         /\ Len(b) >= 2
         /\ b[2] >= 128 /\ b[2] < 192
         /\ Utf8Valid(Tail(Tail(b)))

\* impl Default for OSDStr
OSDStr_default == [i \in 1..OsdMax |-> 0]

\* impl From<&[u8]> for OSDStr: clone_from_slice panics unless both slices
\* have the same length
OSDStr_from(value) ==
    LET len == IF OsdMax < Len(value) THEN OsdMax ELSE Len(value)
    IN  IF Len(value) # len THEN Panic
        ELSE Ok(CopyInto(OSDStr_default, 0, len, value))

\* impl TryFrom<String> for OSDStr
OSDStr_try_from(value) ==
    IF is_ascii(value)
    THEN Ok(resize(into_bytes(value), OsdMax, 0))
    ELSE Err("()")

\* the bytes before the first NUL, if there is one
UntilNul(a) ==
    IF \E i \in 1..Len(a) : a[i] = 0
    THEN SubSeq(a, 1, (CHOOSE i \in 1..Len(a) :
                          a[i] = 0 /\ \A j \in 1..(i - 1) : a[j] # 0) - 1)
    ELSE a

\* AsRef<str> that reads the whole array
as_ref_wholeArray(a) == IF Utf8Valid(a) THEN a ELSE << >>

\* impl AsRef<str> for OSDStr: the bytes of the str it returns
as_ref(a) == IF Utf8Valid(UntilNul(a)) THEN UntilNul(a) ELSE << >>

\* OSDStr::try_from(String)
osd_try_from ==
    /\ pc = "idle"
    /\ \E s \in (IF AtHome THEN Strings ELSE {<< >>}) :
         /\ call' = [NoCall EXCEPT !.name = "OSDStr::try_from", !.data = s]
         /\ result' = OSDStr_try_from(s)
    /\ pc' = "returned"
    /\ UNCHANGED <<msg, submitted, decoded, adap, fh, peer, last_mode,
                   before>>

\* OSDStr::from(&[u8])
osd_from ==
    /\ pc = "idle"
    /\ \E s \in (IF AtHome THEN Slices ELSE {<< >>}) :
         /\ call' = [NoCall EXCEPT !.name = "OSDStr::from", !.data = s]
         /\ result' = OSDStr_from(s)
         /\ pc' = IF result'.kind = "Panic" THEN "panicked" ELSE "returned"
    /\ UNCHANGED <<msg, submitted, decoded, adap, fh, peer, last_mode,
                   before>>

NextOsd ==
    \/ osd_try_from
    \/ osd_from
    \/ Drop

SpecOsd == Init /\ [][NextOsd]_vars

Next ==
    \/ init
    \/ transmit
    \/ transmit_data
    \/ request_data
    \/ rec_for
    \/ keypress
    \/ turn_on
    \/ Decode
    \/ Drop

Spec == Init /\ [][Next]_vars

\* the calls that configure the adapter, and transmit on what they leave
NextAdapter ==
    \/ set_phys
    \/ set_log
    \/ set_mode
    \/ get_mode
    \/ transmit
    \/ Drop

SpecAdapter == Init /\ [][NextAdapter]_vars

(* ------------------------------- claims -------------------------------- *)

\* the names of the bits that are set in the status byte n
Bits(n) == {k \in 0..7 : (n \div (2 ^ k)) % 2 = 1}

\* bytes [2, len) of the message m, by index
ParamBytes(m) == [i \in 1..(IF m.len > 2 THEN m.len - 2 ELSE 0) |-> m.msg[i + 2]]

\* the transport took the message of the last call: the driver fills in the
\* sequence number of every transmit it accepts
Accepted == pc # "idle" /\ msg.sequence # 0

\* the message the last call built is the one the accessors were applied to
DecodedBuilt == decoded.valid /\ Len(submitted) = 1 /\ decoded.of = submitted[1]

\* C1: a message built as transmit_data builds it reads back through
\* initiator(), destination(), opcode() and parameters() as the initiator,
\* destination, opcode and parameters it was built from; a message built by
\* CecMsg::init alone reads back with no opcode and no parameters.
C1_RoundTrip ==
    /\ (DecodedBuilt /\ call.name = "transmit_data") =>
          /\ decoded.initiator = call.from
          /\ decoded.destination = call.to
          /\ decoded.opcode = [tag |-> "Ok", number |-> call.opcode]
          /\ ~decoded.parameters.panicked
          /\ decoded.parameters.bytes = call.data
    /\ (decoded.valid /\ call.name = "init") =>
          /\ decoded.of.len = 1
          /\ decoded.initiator = call.from
          /\ decoded.destination = call.to
          /\ decoded.opcode.tag = "None"
          /\ ~decoded.parameters.panicked
          /\ decoded.parameters.bytes = << >>

C1_Witness ==
    /\ DecodedBuilt
    /\ call.name = "transmit_data"
    /\ Len(call.data) = 14
    /\ decoded.of.len = CEC_MAX_MSG_SIZE
    /\ decoded.parameters.bytes = call.data

\* C2: transmit_data and request_data with more than 14 parameter bytes
\* return a ParameterTooLong error to the caller: nothing is handed to the
\* transport, nothing is truncated and the program does not abort.
C2_TooLongIsAnError ==
    (call.name \in {"transmit_data", "request_data"} /\ Len(call.data) > 14) =>
        /\ pc = "returned"
        /\ result.kind = "Err"
        /\ result.err = "ParameterTooLong"
        /\ submitted = << >>

\* C3: is_ok is false if tx_status is non-empty and lacks OK, false if
\* rx_status is non-empty and lacks OK, false if both are empty, false if
\* rx_status has FEATURE_ABORT, and true in every other case.
C3_IsOkTruthTable ==
    decoded.valid =>
        LET T == Bits(decoded.of.tx_status)
            R == Bits(decoded.of.rx_status)
        IN  decoded.is_ok =
               ~ \/ (T # {} /\ 0 \notin T)
                 \/ (R # {} /\ 0 \notin R)
                 \/ (T = {} /\ R = {})
                 \/ 2 \in R

C3_Witness ==
    /\ decoded.valid
    /\ decoded.of.tx_status = TxStatus_OK + TxStatus_ARB_LOST
    /\ decoded.of.rx_status = RxStatus_OK + RxStatus_FEATURE_ABORT
    /\ ~decoded.is_ok

\* C4, as the spec states it: transmit and transmit_data return success
\* exactly when is_ok holds of the status bits the transport wrote back.
C4_SuccessIffIsOk ==
    (Accepted /\ call.name \in {"transmit", "transmit_data"}) =>
        /\ result.kind \in {"Ok", "Err"}
        /\ (result.kind = "Ok") = is_ok(msg)

\* C4, amended: transmit and transmit_data return success exactly when the
\* TxStatus bits the transport wrote back contain OK, whatever the RxStatus
\* bits are, and an error otherwise; where RxStatus is empty that is exactly
\* when is_ok holds.
C4_SuccessIffTxOk ==
    (Accepted /\ call.name \in {"transmit", "transmit_data"}) =>
        /\ result.kind \in {"Ok", "Err"}
        /\ (result.kind = "Ok") = (0 \in Bits(msg.tx_status))
        /\ msg.rx_status = 0 => ((result.kind = "Ok") = is_ok(msg))

C4_Witness ==
    /\ Accepted
    /\ call.name = "transmit"
    /\ msg.tx_status = TxStatus_OK
    /\ msg.rx_status = RxStatus_OK + RxStatus_FEATURE_ABORT
    /\ result.kind = "Ok"
    /\ ~is_ok(msg)

\* C5: request_data, when the reply left by the transport is FeatureAbort,
\* TxStatus has OK and RxStatus has FEATURE_ABORT, returns an error (that
\* carries the abort reason), never the feature-abort payload as data.
C5_AbortIsAnError ==
    ( /\ Accepted
      /\ call.name = "request_data"
      /\ msg.reply = FeatureAbort
      /\ 0 \in Bits(msg.tx_status)
      /\ 2 \in Bits(msg.rx_status) ) =>
        result.kind = "Err"

\* C6: request_data, when the reply left by the transport is not
\* FeatureAbort, returns Ok with bytes [2, len) of the returned message,
\* the empty sequence when len is 2 or less.
C6_ReplyPayload ==
    (Accepted /\ call.name = "request_data" /\ msg.reply # FeatureAbort) =>
        /\ result.kind = "Ok"
        /\ result.data = ParamBytes(msg)
        /\ msg.len <= 2 => result.data = << >>

C6_Witness ==
    /\ Accepted
    /\ call.name = "request_data"
    /\ msg.reply = ReportAudioStatus
    /\ msg.len = 4
    /\ msg.msg # submitted[1].msg
    /\ result = Ok(<<msg.msg[3], msg.msg[4]>>)

\* C7: request_data returns a TimedOut error whenever the reply left by the
\* transport is FeatureAbort and TxStatus lacks OK, whatever RxStatus says,
\* and whenever the reply is FeatureAbort, TxStatus has OK and RxStatus
\* lacks FEATURE_ABORT.
C7_TimedOut ==
    (Accepted /\ call.name = "request_data" /\ msg.reply = FeatureAbort) =>
        /\ 0 \notin Bits(msg.tx_status) => result = Err("TimedOut")
        /\ (0 \in Bits(msg.tx_status) /\ 2 \notin Bits(msg.rx_status)) =>
              result = Err("TimedOut")

C7_Witness ==
    /\ Accepted
    /\ call.name = "request_data"
    /\ msg.reply = FeatureAbort
    /\ 0 \notin Bits(msg.tx_status)
    /\ 2 \in Bits(msg.rx_status)
    /\ result = Err("TimedOut")

\* C8: the message transmit(i, d, opcode) hands to the transport has byte 0
\* equal to (i << 4) | d, byte 1 equal to the opcode and length 2; Playback2
\* to Audiosystem with Standby gives 0x85, 0x36.
C8_TransmitBytes ==
    call.name = "transmit" =>
        /\ Len(submitted) = 1
        /\ submitted[1].len = 2
        /\ submitted[1].msg[1] = call.from * 16 + call.to
        /\ submitted[1].msg[2] = call.opcode
        /\ (call.from = 8 /\ call.to = 5 /\ call.opcode = 54) =>
              (submitted[1].msg[1] = 133 /\ submitted[1].msg[2] = 54)

C8_Witness ==
    /\ call.name = "transmit"
    /\ call.from = Playback2
    /\ call.to = Audiosystem
    /\ call.opcode = Standby
    /\ submitted[1].msg[1] = 133
    /\ submitted[1].msg[2] = 54
    /\ submitted[1].len = 2

\* C9: is_broadcast() is true if and only if the low 4 bits of byte 0 are
\* 0xF, whatever the high 4 bits are.
C9_Broadcast ==
    decoded.valid => (decoded.is_broadcast = (decoded.of.msg[1] % 16 = 15))

C9_Witness ==
    /\ decoded.valid
    /\ decoded.is_broadcast
    /\ decoded.of.msg[1] \div 16 = Audiosystem
    /\ decoded.destination = UnregisteredBroadcast

\* C10: the accessors never fail on a 16-byte buffer with length 1..16; an
\* opcode byte that is no CecOpcode decodes to an error value that carries
\* the raw byte, the parameters are bytes [2, len) all the same, and the
\* opcode is present if and only if len > 1.
C10_DecodeTotal ==
    decoded.valid =>
        /\ decoded.initiator \in CecLogicalAddress
        /\ decoded.destination \in CecLogicalAddress
        /\ ~decoded.parameters.panicked
        /\ decoded.parameters.bytes = ParamBytes(decoded.of)
        /\ (decoded.opcode.tag # "None") = (decoded.of.len > 1)
        /\ decoded.of.len > 1 =>
              /\ decoded.opcode.number = decoded.of.msg[2]
              /\ (decoded.opcode.tag = "Ok") = (decoded.of.msg[2] \in CecOpcode)
              /\ (decoded.opcode.tag = "Err") = (decoded.of.msg[2] \notin CecOpcode)

C10_Witness ==
    /\ decoded.valid
    /\ call.name = "rec_for"
    /\ decoded.of.msg[2] = 92
    /\ decoded.opcode = [tag |-> "Err", number |-> 92]
    /\ decoded.of.len = CEC_MAX_MSG_SIZE
    /\ Len(decoded.parameters.bytes) = 14

\* a message of opcode op from `from` to `to` carrying the bytes params
IsMessage(m, from, to, op, params) ==
    /\ m.len = 2 + Len(params)
    /\ initiator(m) = from
    /\ destination(m) = to
    /\ opcode(m) = [tag |-> "Ok", number |-> op]
    /\ ParamBytes(m) = params

TurnedOn == pc = "returned" /\ call.name = "turn_on"

\* C11 as stated: turn_on to the TV submits exactly one message, ImageViewOn
\* without parameters; turn_on to any other destination submits
\* UserControlPressed carrying Power and then UserControlReleased, both
\* from `from` to `to`.
C11_PressThenRelease ==
    TurnedOn =>
        IF call.to = Tv
        THEN /\ Len(submitted) = 1
             /\ IsMessage(submitted[1], call.from, call.to, ImageViewOn, << >>)
        ELSE /\ Len(submitted) = 2
             /\ IsMessage(submitted[1], call.from, call.to,
                          UserControlPressed, <<Power>>)
             /\ IsMessage(submitted[2], call.from, call.to,
                          UserControlReleased, << >>)

\* C11, amended: turn_on to the TV submits exactly one message, ImageViewOn
\* without parameters; turn_on to any other destination submits no
\* ImageViewOn but first UserControlPressed carrying Power, and after it
\* UserControlReleased unless the press failed (the driver refused it or
\* its TxStatus lacks OK), in which case the press is the only message
\* submitted and turn_on returns the error of the press.
C11_PressThenReleaseIfPressed ==
    TurnedOn =>
        IF call.to = Tv
        THEN /\ Len(submitted) = 1
             /\ IsMessage(submitted[1], call.from, call.to, ImageViewOn, << >>)
        ELSE /\ Len(submitted) \in {1, 2}
             /\ IsMessage(submitted[1], call.from, call.to,
                          UserControlPressed, <<Power>>)
             /\ Len(submitted) = 2 =>
                    IsMessage(submitted[2], call.from, call.to,
                              UserControlReleased, << >>)
             /\ Len(submitted) = 1 =>
                    /\ result.kind = "Err"
                    /\ ~Accepted \/ ~contains(msg.tx_status, TxStatus_OK)
             /\ result.kind = "Ok" => Len(submitted) = 2

\* a turn_on of another device than the TV whose press and release both
\* went through
C11_Witness ==
    /\ TurnedOn
    /\ call.to # Tv
    /\ result.kind = "Ok"
    /\ Len(submitted) = 2
    /\ Accepted

\* the calls that hand a message to CEC_TRANSMIT
TransmitCalls ==
    {"transmit", "transmit_data", "request_data", "keypress", "turn_on"}

\* the last call transmitted from an address the adapter has not claimed
FromUnclaimed ==
    /\ pc = "returned"
    /\ call.name \in TransmitCalls
    /\ ~contains(adap.log_addr_mask, Pow2(call.from))

Requested ==
    /\ pc = "returned"
    /\ call.name = "request_data"
    /\ Len(submitted) = 1

Configured(name) ==
    pc = "returned" /\ call.name = name /\ before.valid

\* the handle that made the call may configure the adapter through it
MayConfigure(cap) ==
    cap \in before.adap.caps /\ ~NoInitiator(before.fh.mode)

\* the adapter is in the first state of the chain Unconfigured ->
\* PhysicalAddressSet -> LogicalAddressesClaimed: no physical address and
\* nothing claimed
NothingSet(a) == Unconfigured(a) /\ ~PhysicalAddressSet(a)

\* C14: set_log with num_log_addrs = 0 on an adapter that has claimed
\* logical addresses, from a handle that may configure it, succeeds and
\* leaves the adapter unconfigured with a claimed-address mask of 0,
\* whatever the types and the mask fields of the submitted structure hold.
C14_ClearLogAddrs ==
    ( /\ Configured("set_log")
      /\ call.data[1] = 0
      /\ LogicalAddressesClaimed(before.adap)
      /\ MayConfigure("LOG_ADDRS") )
    => /\ result = Ok(<< >>)
       /\ Unconfigured(adap)
       /\ adap.log_addr_mask = 0
       /\ adap.log_addr = << >>

\* a clearing set_log whose structure names the TV type and a stale mask
C14_Witness ==
    /\ Configured("set_log")
    /\ call.data = <<0, CecLogAddrType_TV, MaskOf(<<Playback1>>)>>
    /\ LogicalAddressesClaimed(before.adap)
    /\ MayConfigure("LOG_ADDRS")
    /\ Unconfigured(adap)

\* C15 as stated: no single call takes the adapter directly from
\* Unconfigured to LogicalAddressesClaimed or back: between the two it is
\* in PhysicalAddressSet.
C15_NoDirectTransition ==
    (pc = "returned" /\ before.valid) =>
        /\ ~(NothingSet(before.adap) /\ LogicalAddressesClaimed(adap))
        /\ ~(LogicalAddressesClaimed(before.adap) /\ NothingSet(adap))

\* C15, amended: an adapter that has claimed logical addresses has a
\* physical address. It claims them in a set_log that finds the physical
\* address set, or in a set_phys that finds logical address types
\* defined, and that set_phys may take it from Unconfigured to
\* LogicalAddressesClaimed in one call; it goes from
\* LogicalAddressesClaimed to Unconfigured in one call, too, by
\* set_phys(0xFFFF).
C15_ClaimedHasPhysAddr ==
    /\ LogicalAddressesClaimed(adap) =>
           adap.phys_addr # CEC_PHYS_ADDR_INVALID
    /\ (pc = "returned" /\ before.valid) =>
        /\ ( /\ ~LogicalAddressesClaimed(before.adap)
             /\ LogicalAddressesClaimed(adap) )
           => /\ result = Ok(<< >>)
              /\ \/ /\ call.name = "set_log"
                    /\ PhysicalAddressSet(before.adap)
                 \/ /\ call.name = "set_phys"
                    /\ before.adap.log_addr_type # << >>
        /\ ( /\ LogicalAddressesClaimed(before.adap)
             /\ NothingSet(adap) )
           => /\ result = Ok(<< >>)
              /\ call.name = "set_phys"
              /\ call.data = <<CEC_PHYS_ADDR_INVALID>>

\* a set_phys that took the adapter from Unconfigured straight to
\* LogicalAddressesClaimed
C15_Witness ==
    /\ Configured("set_phys")
    /\ NothingSet(before.adap)
    /\ LogicalAddressesClaimed(adap)

\* C16: set_phys on an adapter without the PHYS_ADDR capability fails with
\* the error of ENOTTY (unsupported), and on an adapter that has it but
\* from a handle whose initiator mode is None with ResourceBusy; either way
\* the adapter (physical address, claimed addresses, mask) is as it was
\* and no handle has a new StateChange event.
C16_SetPhysRefused ==
    Configured("set_phys") =>
        /\ "PHYS_ADDR" \notin before.adap.caps =>
               result = Err(ErrorKindOf("ENOTTY"))
        /\ ("PHYS_ADDR" \in before.adap.caps /\ NoInitiator(before.fh.mode)) =>
               result = Err("ResourceBusy")
        /\ result.kind = "Err" =>
               /\ adap = before.adap
               /\ fh = before.fh
               /\ peer.ev_state = before.fh.ev_state

\* a set_phys with a new address from a handle whose initiator is None
C16_Witness ==
    /\ Configured("set_phys")
    /\ "PHYS_ADDR" \in before.adap.caps
    /\ NoInitiator(before.fh.mode)
    /\ call.data[1] # before.adap.phys_addr
    /\ result = Err("ResourceBusy")

\* C17: a set_phys(0xFFFF) that succeeds leaves the adapter without
\* physical address and unconfigured; and in every state, and in the
\* StateChange event of every handle, a physical address of 0xFFFF comes
\* with a claimed-address mask of 0.
C17_InvalidPhysNoAddrs ==
    /\ adap.phys_addr = CEC_PHYS_ADDR_INVALID => adap.log_addr_mask = 0
    /\ \A h \in {fh, peer} :
         h.ev_state.phys_addr = CEC_PHYS_ADDR_INVALID =>
             h.ev_state.log_addr_mask = 0
    /\ ( /\ Configured("set_phys")
         /\ call.data = <<CEC_PHYS_ADDR_INVALID>>
         /\ result.kind = "Ok" )
       => /\ adap.phys_addr = CEC_PHYS_ADDR_INVALID
          /\ Unconfigured(adap)
          /\ NothingSet(adap)

\* a set_phys(0xFFFF) on an adapter that had claimed logical addresses
C17_Witness ==
    /\ Configured("set_phys")
    /\ call.data = <<CEC_PHYS_ADDR_INVALID>>
    /\ LogicalAddressesClaimed(before.adap)
    /\ result.kind = "Ok"
    /\ fh.ev_state = [phys_addr |-> CEC_PHYS_ADDR_INVALID, log_addr_mask |-> 0]

\* C18: set_log that asks for at least one address fails with ResourceBusy
\* when logical address types are already defined, and fails when the
\* LOG_ADDRS capability is absent or the handle's initiator mode is None;
\* whenever it fails, the requested types, the claimed addresses and the
\* mask are as they were.
C18_SetLogRefused ==
    (Configured("set_log") /\ call.data[1] >= 1) =>
        /\ (MayConfigure("LOG_ADDRS") /\ before.adap.log_addr_type # << >>) =>
               result = Err("ResourceBusy")
        /\ ~MayConfigure("LOG_ADDRS") => result.kind = "Err"
        /\ "LOG_ADDRS" \notin before.adap.caps =>
               result = Err(ErrorKindOf("ENOTTY"))
        /\ result.kind = "Err" =>
               /\ adap = before.adap
               /\ fh = before.fh

\* a second set_log on an adapter that has claimed addresses
C18_Witness ==
    /\ Configured("set_log")
    /\ call.data[1] >= 1
    /\ MayConfigure("LOG_ADDRS")
    /\ LogicalAddressesClaimed(before.adap)
    /\ result = Err("ResourceBusy")

\* the pair get_mode reads out of a mode word
ModePair(mode) ==
    <<BitAnd(mode, CEC_MODE_INITIATOR_MSK), BitAnd(mode, CEC_MODE_FOLLOWER_MSK)>>

\* C19: set_mode(initiator, follower) with follower All, Exclusive or
\* ExclusivePassthru is refused when initiator is None or the adapter lacks
\* TRANSMIT; Monitor and MonitorAll are accepted only with initiator None,
\* MonitorAll only with the MONITOR_ALL capability; a refused set_mode
\* leaves the handle's mode as it was; and get_mode returns the pair of the
\* last set_mode that was accepted.
C19_ModeRules ==
    /\ Configured("set_mode") =>
        /\ ( /\ call.data[2] \in FollowerModes
             /\ \/ call.data[1] = CecModeInitiator_None
                \/ "TRANSMIT" \notin before.adap.caps )
           => result.kind = "Err"
        /\ (result.kind = "Ok" /\ call.data[2] \in MonitorModes) =>
               call.data[1] = CecModeInitiator_None
        /\ (result.kind = "Ok" /\ call.data[2] = CecModeFollower_MonitorAll) =>
               "MONITOR_ALL" \in before.adap.caps
        /\ result.kind = "Err" => fh.mode = before.fh.mode
        /\ result.kind = "Ok" => ModePair(fh.mode) = call.data
    /\ Configured("get_mode") => result = Ok(last_mode)

\* get_mode after a set_mode(None, MonitorAll) that was accepted
C19_Witness ==
    /\ Configured("get_mode")
    /\ result = Ok(<<CecModeInitiator_None, CecModeFollower_MonitorAll>>)

\* C20: after every call that changed the physical address or the claimed
\* logical addresses of the adapter, the handle that made the call and the
\* other open handle each have a StateChange event that carries the new
\* physical address and the new mask.
C20_StateChangeEvent ==
    ( /\ pc = "returned"
      /\ before.valid
      /\ \/ adap.phys_addr # before.adap.phys_addr
         \/ adap.log_addr # before.adap.log_addr
         \/ adap.log_addr_mask # before.adap.log_addr_mask )
    => \A h \in {fh, peer} :
         h.ev_state = [phys_addr |-> adap.phys_addr,
                       log_addr_mask |-> adap.log_addr_mask]

\* a set_log that claimed an address on an adapter with a physical address
C20_Witness ==
    /\ Configured("set_log")
    /\ PhysicalAddressSet(before.adap)
    /\ LogicalAddressesClaimed(adap)
    /\ fh.ev_state # before.fh.ev_state
    /\ peer.ev_state = StateChange(adap)

\* a call of OSDStr::try_from has returned
OsdTried == pc = "returned" /\ call.name = "OSDStr::try_from"

\* the string has at most MAX bytes, all ASCII and none of them NUL
FitsOsd(s) ==
    /\ is_ascii(s)
    /\ Len(into_bytes(s)) <= OsdMax
    /\ \A i \in 1..Len(s) : s[i] # 0

\* C26: OSDStr::try_from takes every ASCII string of at most MAX bytes
\* without a NUL, and as_ref() of the OSDStr it returns is that string; it
\* refuses a string with a non-ASCII character with an error; as_ref() of
\* the default OSDStr is the empty string.
C26_OsdRoundTrip ==
    /\ as_ref(OSDStr_default) = << >>
    /\ OsdTried /\ FitsOsd(call.data) =>
         /\ result.kind = "Ok"
         /\ as_ref(result.data) = into_bytes(call.data)
    /\ OsdTried /\ ~is_ascii(call.data) => result = Err("()")

\* a string of exactly MAX characters, which leaves no room for a NUL, was
\* converted and reads back
C26_Witness ==
    /\ OsdTried
    /\ FitsOsd(call.data)
    /\ Len(call.data) = OsdMax
    /\ result.kind = "Ok"
    /\ as_ref(result.data) = call.data

\* a call of OSDStr::from has come back or has panicked
OsdFromCalled == pc # "idle" /\ call.name = "OSDStr::from"

\* C30: OSDStr::from(&[u8]) returns, for a slice of every length, the
\* OSDStr that holds the first min(MAX, length) bytes of the slice and
\* zero bytes after them.
C30_FromSliceTotal ==
    OsdFromCalled =>
        result = Ok(resize(call.data, OsdMax, 0))

KeyPressed == pc = "returned" /\ call.name = "keypress"

\* C28: keypress submits UserControlPressed with the key code as its only
\* parameter (length 3) and then UserControlReleased without parameters
\* (length 2), both from `from` to `to`; the release is submitted only
\* after the transmit of the press returned Ok; the first transmit that
\* fails ends the call, which returns that error; each of the two messages
\* is submitted at most once.
C28_KeypressOrder ==
    KeyPressed =>
        /\ Len(submitted) \in {1, 2}
        /\ Len(call.transmits) = Len(submitted)
        /\ Len(call.data) = 1
        /\ IsMessage(submitted[1], call.from, call.to, UserControlPressed,
                     call.data)
        /\ submitted[1].len = 3
        /\ Len(submitted) = 2 =>
               /\ call.transmits[1].kind = "Ok"
               /\ IsMessage(submitted[2], call.from, call.to,
                            UserControlReleased, << >>)
               /\ submitted[2].len = 2
        /\ Len(submitted) = 1 => call.transmits[1].kind = "Err"
        /\ result = call.transmits[Len(submitted)]

\* a keypress whose press went through and whose release failed
C28_Witness ==
    /\ KeyPressed
    /\ Len(submitted) = 2
    /\ call.transmits[1].kind = "Ok"
    /\ result.kind = "Err"
    /\ call.data = <<VolumeUp>>

\* the last call was a transmit on a handle that does not block, and the
\* driver took the message and returned before it was sent
AsyncTransmitted ==
    /\ pc = "returned"
    /\ call.name \in {"transmit", "transmit_data"}
    /\ fh.nonblock
    /\ Accepted
    /\ msg.tx_status = 0

\* C29: a transmit on a handle that does not block, which the driver took
\* and returned from with the status bits not yet filled in, returns Ok to
\* its caller.
C29_AsyncTransmitOk ==
    AsyncTransmitted => result.kind = "Ok"

\* the last call was a get_event that returned an event of type typ
GotEvent(typ) ==
    /\ pc = "returned"
    /\ call.name = "get_event"
    /\ result.kind = "Ok"
    /\ result.data[1] = typ

C22_EventOfPendingType ==
    pc = "returned" /\ call.name = "get_event" /\ result.kind = "Ok" =>
        LET typ == result.data[1]
            old == before.fh
        IN  /\ typ \in old.pending
            /\ fh.pending = old.pending \ {typ}
            /\ typ = CecEventType_StateChange =>
                   /\ result.data = <<typ, old.ev_state.phys_addr,
                                      old.ev_state.log_addr_mask>>
                   /\ fh.lost_msgs = old.lost_msgs
            /\ typ = CecEventType_LostMsgs =>
                   /\ result.data = <<typ, old.lost_msgs>>
                   /\ fh.ev_state = old.ev_state

\* both queues held an event; the StateChange was taken before and this
\* get_event has returned the LostMsgs and left both queues empty
C22_Witness ==
    /\ GotEvent(CecEventType_LostMsgs)
    /\ result.data[2] = MaxLost
    /\ fh.pending = {}
    /\ ~fh.unseen
    /\ fh.last_read = StateChange(adap)
    /\ fh.rx = RxQueueSize

\* the last call, of the given name, has returned
Called(name) == pc = "returned" /\ call.name = name

LogAddrsSet ==
    /\ Called("set_log")
    /\ ~fh.nonblock
    /\ call.data[1] >= 1
    /\ result.kind = "Ok"

\* what the driver tells of the logical addresses of the adapter
Confirmed == <<Len(adap.log_addr), adap.log_addr, adap.log_addr_mask>>

\* C25 as stated: a set_log that asked for n >= 1 addresses and returned Ok
\* on a handle that blocks gives its caller what the driver confirmed: the
\* claimed addresses, at most n, and the mask with exactly their bits,
\* which get_log returns too.
C25_SetLogGivesBack ==
    /\ LogAddrsSet =>
         /\ result.data = Confirmed
         /\ Len(adap.log_addr) <= call.data[1]
         /\ adap.log_addr_mask = MaskOf(adap.log_addr)
    /\ Called("get_log") => result = Ok(Confirmed)

\* C25, amended: a set_log that asked for n >= 1 addresses and returned Ok
\* on a handle that blocks gives its caller Ok(()) and nothing else; the
\* adapter has then claimed at most n addresses and its mask has exactly
\* their bits, and these are the values get_log returns.
C25_GetLogGivesBack ==
    /\ LogAddrsSet =>
         /\ result = Ok(<< >>)
         /\ Len(adap.log_addr) <= call.data[1]
         /\ adap.log_addr_mask = MaskOf(adap.log_addr)
    /\ Called("get_log") =>
         /\ result = Ok(Confirmed)
         /\ result.data[3] = MaskOf(result.data[2])
         /\ result.data[1] <= Len(adap.log_addr_type)

\* get_log returns the one address the adapter could claim of the two it
\* was asked for
C25_Witness ==
    /\ Called("get_log")
    /\ Len(adap.log_addr_type) = 2
    /\ result.data[1] = 1
    /\ result.data[3] # 0

\* the set_mode that has returned asked for an exclusive role that the
\* other handle holds
SecondHolder ==
    /\ Called("set_mode")
    /\ \/ call.data[1] = CecModeInitiator_Exclusive
          /\ ExclusiveInitiator(peer)
       \/ call.data[2] \in ExclusiveModes /\ ExclusiveFollower(peer)

\* the pair of modes is one the adapter has no reason of its own to refuse
ValidMode(i, f) ==
    /\ f \in FollowerModes =>
           i # CecModeInitiator_None /\ "TRANSMIT" \in adap.caps
    /\ f \in MonitorModes => i = CecModeInitiator_None
    /\ f = CecModeFollower_MonitorAll => "MONITOR_ALL" \in adap.caps

====
